---- MODULE Spec2Model ----
(***************************************************************************)
(* A model of ts-types-from-strapi: the command-line script that reads     *)
(* Strapi's generated content types and writes plain TypeScript            *)
(* interfaces.  Strings are TLA+ strings handled character by character    *)
(* (SubSeq, Len, \o), so that every regular expression, substring test     *)
(* and replacement of the script is computed the way the script computes   *)
(* it.                                                                     *)
(***************************************************************************)
EXTENDS Integers, Sequences, FiniteSets, TLC

(***************************************************************************)
(* String primitives (JavaScript String.prototype and RegExp classes).     *)
(***************************************************************************)

\* s.charAt(i - 1): the character at the 1-based position i, "" outside s.
charAt(s, i) == IF i >= 1 /\ i <= Len(s) THEN SubSeq(s, i, i) ELSE ""

\* s.slice(a - 1, b): the characters a..b (1-based, inclusive), clipped to s.
slice(s, a, b) ==
  LET lo == IF a < 1 THEN 1 ELSE a
      hi == IF b > Len(s) THEN Len(s) ELSE b
  IN IF lo > hi THEN "" ELSE SubSeq(s, lo, hi)

\* the regular expression class \w
WordChars ==
  LET w == "abcdefghijklmnopqrstuvwxyzABCDEFGHIJKLMNOPQRSTUVWXYZ0123456789_"
  IN {SubSeq(w, k, k) : k \in 1..Len(w)}

isWord(c) == c \in WordChars

\* the regular expression class \s (the members a text file of this kind holds)
isSpace(c) == c \in {" ", "\t", "\n", "\r"}

\* a line terminator, where $ matches under the m flag
isLineEnd(c) == c \in {"\n", "\r"}

\* the least element of a non-empty set of positions
Least(S) == CHOOSE m \in S : \A x \in S : m <= x

\* whether p occurs in s at position i
startsWithAt(s, p, i) ==
  i >= 1 /\ i + Len(p) - 1 <= Len(s) /\ SubSeq(s, i, i + Len(p) - 1) = p

\* s.indexOf(p, from - 1) + 1: the first position >= from where p occurs, 0 if none
indexOfFrom(s, p, from) ==
  LET hits == {i \in from..(Len(s) - Len(p) + 1) : SubSeq(s, i, i + Len(p) - 1) = p}
  IN IF hits = {} THEN 0 ELSE Least(hits)

\* s.includes(p)
includes(s, p) == \E i \in 1..(Len(s) - Len(p) + 1) : SubSeq(s, i, i + Len(p) - 1) = p

\* s.endsWith(p)
endsWith(s, p) == Len(s) >= Len(p) /\ SubSeq(s, Len(s) - Len(p) + 1, Len(s)) = p

\* the concatenation of f[a], ..., f[b]
RECURSIVE Cat(_, _, _)
Cat(f, a, b) ==
  IF a > b THEN ""
  ELSE IF a = b THEN f[a]
  ELSE LET m == (a + b) \div 2 IN Cat(f, a, m) \o Cat(f, m + 1, b)

\* parts.join(sep)
join(parts, sep) ==
  Cat([k \in 1..Len(parts) |-> IF k = 1 THEN parts[k] ELSE sep \o parts[k]],
      1, Len(parts))

\* (s.match(/c/g) || []).length for a single character c
countChar(s, c) == Cardinality({i \in 1..Len(s) : SubSeq(s, i, i) = c})

\* s.split(sep) for a non-empty separator string
RECURSIVE split(_, _)
split(s, sep) ==
  LET k == indexOfFrom(s, sep, 1)
  IN IF k = 0 THEN <<s>>
     ELSE <<slice(s, 1, k - 1)>> \o split(slice(s, k + Len(sep), Len(s)), sep)

\* s.split(/[-.]/)
RECURSIVE splitWords(_)
splitWords(s) ==
  LET hits == {i \in 1..Len(s) : SubSeq(s, i, i) \in {"-", "."}}
  IN IF hits = {} THEN <<s>>
     ELSE LET k == Least(hits)
          IN <<slice(s, 1, k - 1)>> \o splitWords(slice(s, k + 1, Len(s)))

\* the first position >= i of s that holds no \s character (Len(s) + 1 if none)
skipSpaces(s, i) ==
  CHOOSE k \in i..(Len(s) + 1) :
    /\ k = Len(s) + 1 \/ ~isSpace(SubSeq(s, k, k))
    /\ \A x \in i..(k - 1) : isSpace(SubSeq(s, x, x))

\* the last position in a..b of s that holds no \s character (there is one)
lastSolid(s, a, b) ==
  CHOOSE j \in a..b :
    /\ ~isSpace(SubSeq(s, j, j))
    /\ \A x \in (j + 1)..b : isSpace(SubSeq(s, x, x))

\* s.trim()
trim(s) ==
  LET lo == skipSpaces(s, 1)
  IN IF lo > Len(s) THEN "" ELSE SubSeq(s, lo, lastSolid(s, lo, Len(s)))

\* s.replace(/\s+/g, " ")
collapseSpaces(s) ==
  Cat([i \in 1..Len(s) |->
         IF isSpace(SubSeq(s, i, i))
         THEN IF i > 1 /\ isSpace(SubSeq(s, i - 1, i - 1)) THEN "" ELSE " "
         ELSE SubSeq(s, i, i)],
      1, Len(s))

\* s.replace(/,\s*/g, " | ")
commasToUnion(s) ==
  Cat([i \in 1..Len(s) |->
         IF SubSeq(s, i, i) = "," THEN " | "
         ELSE IF /\ isSpace(SubSeq(s, i, i))
                 /\ \E j \in 1..(i - 1) :
                      /\ SubSeq(s, j, j) = ","
                      /\ \A k \in (j + 1)..i : isSpace(SubSeq(s, k, k))
              THEN ""
              ELSE SubSeq(s, i, i)],
      1, Len(s))

\* s.replace(/;$/, "")
stripSemicolon(s) == IF endsWith(s, ";") THEN slice(s, 1, Len(s) - 1) ELSE s

\* c.toUpperCase() for one character
toUpperCase(c) ==
  LET lower == "abcdefghijklmnopqrstuvwxyz"
      upper == "ABCDEFGHIJKLMNOPQRSTUVWXYZ"
      at == {k \in 1..Len(lower) : SubSeq(lower, k, k) = c}
  IN IF at = {} THEN c ELSE LET k == CHOOSE k \in at : TRUE IN SubSeq(upper, k, k)

(***************************************************************************)
(* convertTypeNameToPascalCase and transformAttributeType.                 *)
(***************************************************************************)

\* (word) => word.charAt(0).toUpperCase() + word.slice(1)
capitalize(word) == toUpperCase(charAt(word, 1)) \o slice(word, 2, Len(word))

convertTypeNameToPascalCase(typeName) ==
  LET parts == split(typeName, "::")
      pascal(part) ==
        LET words == splitWords(part)
        IN join([k \in 1..Len(words) |-> capitalize(words[k])], "")
  IN join([k \in 1..Len(parts) |-> pascal(parts[k])], "")

NoMatch == [found |-> FALSE]

\* attributeType.match(/Enumeration<\s*\[([^\]]+)\]\s*>/) tried at position p
enumMatchAt(s, p) ==
  LET a == skipSpaces(s, p + Len("Enumeration<"))
      close == indexOfFrom(s, "]", a + 1)
      b == skipSpaces(s, close + 1)
  IN IF /\ startsWithAt(s, "Enumeration<", p)
        /\ charAt(s, a) = "["
        /\ close > a + 1
        /\ charAt(s, b) = ">"
     THEN [found |-> TRUE, values |-> slice(s, a + 1, close - 1)]
     ELSE NoMatch

\* attributeType.match(/Enumeration<\s*\[([^\]]+)\]\s*>/): the leftmost match
enumMatch(s) ==
  LET hits == {p \in 1..Len(s) : enumMatchAt(s, p).found}
  IN IF hits = {} THEN NoMatch ELSE enumMatchAt(s, Least(hits))

\* attributeType.match(/Relation<'([^']+)',\s*'([^']+)'/) tried at position p
relationMatchAt(s, p) ==
  LET k1 == p + Len("Relation<'")
      q1 == indexOfFrom(s, "'", k1)
      a == skipSpaces(s, q1 + 2)
      q2 == indexOfFrom(s, "'", a + 1)
  IN IF /\ startsWithAt(s, "Relation<'", p)
        /\ q1 > k1
        /\ charAt(s, q1 + 1) = ","
        /\ charAt(s, a) = "'"
        /\ q2 > a + 1
     THEN [found |-> TRUE,
           relationType |-> slice(s, k1, q1 - 1),
           targetType |-> slice(s, a + 1, q2 - 1)]
     ELSE NoMatch

\* attributeType.match(/Relation<'([^']+)',\s*'([^']+)'/): the leftmost match
relationMatch(s) ==
  LET hits == {p \in 1..Len(s) : relationMatchAt(s, p).found}
  IN IF hits = {} THEN NoMatch ELSE relationMatchAt(s, Least(hits))

\* the enumeration rule without the conversion of the commas
transformEnumerationCommas(attributeType) ==
  LET m == enumMatch(attributeType)
  IN IF m.found THEN trim(collapseSpaces(m.values)) ELSE "string"

\* the enumeration rule of transformAttributeType
transformEnumeration(attributeType) ==
  LET m == enumMatch(attributeType)
  IN IF m.found
     THEN trim(commasToUnion(collapseSpaces(m.values)))
     ELSE "string"

\* the relation rule with the array suffix for oneToMany only
transformRelationOneToMany(attributeType) ==
  LET m == relationMatch(attributeType)
  IN IF m.found
     THEN LET typeName == convertTypeNameToPascalCase(m.targetType)
          IN IF m.relationType = "oneToMany" THEN typeName \o "[]" ELSE typeName
     ELSE "any"

\* the relation rule of transformAttributeType
transformRelation(attributeType) ==
  LET m == relationMatch(attributeType)
  IN IF m.found
     THEN LET typeName == convertTypeNameToPascalCase(m.targetType)
          IN IF m.relationType = "oneToMany" \/ m.relationType = "manyToMany"
             THEN typeName \o "[]"
             ELSE typeName
     ELSE "any"

\* the JSON rule of transformAttributeType
transformJSON(attributeType) ==
  IF \/ includes(attributeType, "DefaultTo<'[]'>")
     \/ includes(attributeType, "DefaultTo<[]>")
  THEN "any[]"
  ELSE IF \/ includes(attributeType, "DefaultTo<'{}'>")
          \/ includes(attributeType, "DefaultTo<{}>")
  THEN "Record<string, any>"
  ELSE "Record<string, any>"

\* the basic types of transformAttributeType, in the order they are tested
transformBasic(attributeType) ==
  IF includes(attributeType, "Schema.Attribute.String") THEN "string"
  ELSE IF includes(attributeType, "Schema.Attribute.Email") THEN "string"
  ELSE IF includes(attributeType, "Schema.Attribute.Password") THEN "string"
  ELSE IF includes(attributeType, "Schema.Attribute.Text") THEN "string"
  ELSE IF includes(attributeType, "Schema.Attribute.Integer") THEN "number"
  ELSE IF includes(attributeType, "Schema.Attribute.BigInteger") THEN "number"
  ELSE IF includes(attributeType, "Schema.Attribute.Decimal") THEN "number"
  ELSE IF includes(attributeType, "Schema.Attribute.Boolean") THEN "boolean"
  ELSE IF includes(attributeType, "Schema.Attribute.DateTime") THEN "string"
  ELSE "any"

\* the rules with JSON tested before the relation
transformJSONBeforeRelation(attributeType) ==
  IF includes(attributeType, "Schema.Attribute.Enumeration")
  THEN transformEnumeration(attributeType)
  ELSE IF includes(attributeType, "Schema.Attribute.JSON")
  THEN transformJSON(attributeType)
  ELSE IF includes(attributeType, "Schema.Attribute.Relation")
  THEN transformRelation(attributeType)
  ELSE transformBasic(attributeType)

transformAttributeType(attributeType) ==
  IF includes(attributeType, "Schema.Attribute.Enumeration")
  THEN transformEnumeration(attributeType)
  ELSE IF includes(attributeType, "Schema.Attribute.Relation")
  THEN transformRelation(attributeType)
  ELSE IF includes(attributeType, "Schema.Attribute.JSON")
  THEN transformJSON(attributeType)
  ELSE transformBasic(attributeType)

(***************************************************************************)
(* The regular expressions of generateTypes and parseAttributes.           *)
(***************************************************************************)

\* the number of \w characters s starts with at position i
wordRun(s, i) ==
  LET stop == CHOOSE k \in i..(Len(s) + 1) :
                /\ k = Len(s) + 1 \/ ~isWord(SubSeq(s, k, k))
                /\ \A x \in i..(k - 1) : isWord(SubSeq(s, x, x))
  IN stop - i

\* /export interface (\w+)[^{]*\{([\s\S]*?)\n\}/ tried at position p: the name is
\* the longest run of \w, the body runs from the first "{" to the first "\n}"
interfaceMatchAt(s, p) ==
  LET nameStart == p + Len("export interface ")
      nameLen == wordRun(s, nameStart)
      open == indexOfFrom(s, "{", nameStart + nameLen)
      close == indexOfFrom(s, "\n}", open + 1)
  IN IF /\ startsWithAt(s, "export interface ", p)
        /\ nameLen > 0
        /\ open > 0
        /\ close > 0
     THEN [found |-> TRUE,
           name |-> slice(s, nameStart, nameStart + nameLen - 1),
           content |-> slice(s, open + 1, close - 1),
           lastIndex |-> close + 2]
     ELSE NoMatch

\* interfaceRegex.exec(inputContent) with the g flag: the leftmost match that
\* starts at or after lastIndex (a 1-based position here)
interfaceExec(s, lastIndex) ==
  LET starts == {p \in lastIndex..Len(s) : startsWithAt(s, "export interface ", p)}
      hits == {p \in starts : interfaceMatchAt(s, p).found}
  IN IF hits = {} THEN NoMatch ELSE interfaceMatchAt(s, Least(hits))

\* \s*$ under the m flag at position r: only \s up to a line terminator or the end
blankToLineEnd(s, r) ==
  LET n == skipSpaces(s, r)
  IN n = Len(s) + 1 \/ \E e \in r..(n - 1) : isLineEnd(SubSeq(s, e, e))

\* \};?\s*$ under the m flag at position k
closesLine(s, k) ==
  /\ charAt(s, k) = "}"
  /\ blankToLineEnd(s, IF charAt(s, k + 1) = ";" THEN k + 2 ELSE k + 1)

\* /attributes:\s*\{([\s\S]*?)\s*\};?\s*$/m tried at position p: the lazy group
\* ends before the white space in front of the first "}" that ends its line
attributesMatchAt(s, p) ==
  LET a == skipSpaces(s, p + Len("attributes:"))
      closers == {k \in (a + 1)..Len(s) : closesLine(s, k)}
      k == Least(closers)
      last == lastSolid(s, a, k - 1)
  IN IF /\ startsWithAt(s, "attributes:", p)
        /\ charAt(s, a) = "{"
        /\ closers # {}
     THEN [found |-> TRUE, content |-> slice(s, a + 1, last)]
     ELSE NoMatch

\* interfaceContent.match(/attributes:\s*\{([\s\S]*?)\s*\};?\s*$/m)
attributesMatch(s) ==
  LET starts == {p \in 1..Len(s) : startsWithAt(s, "attributes:", p)}
      hits == {p \in starts : attributesMatchAt(s, p).found}
  IN IF hits = {} THEN NoMatch ELSE attributesMatchAt(s, Least(hits))

\* line.match(/^(\w+):\s*(.*)/)
attrMatch(line) ==
  LET nameLen == wordRun(line, 1)
      typeStart == skipSpaces(line, nameLen + 2)
      stop == {k \in typeStart..Len(line) : isLineEnd(SubSeq(line, k, k))}
      typeEnd == IF stop = {} THEN Len(line) ELSE Least(stop) - 1
  IN IF nameLen > 0 /\ charAt(line, nameLen + 1) = ":"
     THEN [found |-> TRUE,
           name |-> slice(line, 1, nameLen),
           type |-> slice(line, typeStart, typeEnd)]
     ELSE NoMatch

\* attributesContent.split("\n").map((line) => line.trim()).filter((line) => line)
splitLines(attributesContent) ==
  LET raw == split(attributesContent, "\n")
      trimmed == [k \in 1..Len(raw) |-> trim(raw[k])]
  IN SelectSeq(trimmed, LAMBDA line : line # "")

\* (t.match(/</g) || []).length - (t.match(/>/g) || []).length, and the like
netOpen(t, open, close) == countChar(t, open) - countChar(t, close)

\* the loop going on until each count is exactly zero
mustContinueUntilZero(i, lines, attrType, openAngle, openBrace, openBracket) ==
  /\ i < Len(lines)
  /\ \/ ~endsWith(attrType, ";")
     \/ openAngle # 0
     \/ openBrace # 0
     \/ openBracket # 0

\* the condition of the continuation loop of parseAttributes
mustContinue(i, lines, attrType, openAngle, openBrace, openBracket) ==
  /\ i < Len(lines)
  /\ \/ ~endsWith(attrType, ";")
     \/ openAngle > 0
     \/ openBrace > 0
     \/ openBracket > 0

\* attrType.replace(/;$/, "").replace(/\s+/g, " ").trim()
cleanType(attrType) == trim(collapseSpaces(stripSemicolon(attrType)))

\* the same test, anchored at the end of the expression
endsWithPrivate(attrType) == endsWith(attrType, "Schema.Attribute.Private")

isPrivate(attrType) == includes(attrType, "Schema.Attribute.Private")

isRequired(attrType) == includes(attrType, "Schema.Attribute.Required")

(***************************************************************************)
(* The renderer of generateTypes.                                          *)
(***************************************************************************)

\* a property line that ignores the required flag
renderOptional(attr) == "  " \o attr.name \o "?: " \o attr.type \o ";"

renderProp(attr) ==
  "  " \o attr.name \o (IF attr.required THEN "" ELSE "?") \o ": " \o attr.type \o ";"

renderInterface(iface) ==
  LET props == [k \in 1..Len(iface.attributes) |-> renderProp(iface.attributes[k])]
  IN "export interface " \o iface.name \o " {\n" \o join(props, "\n") \o "\n}"

renderTypes(ifaces) ==
  join([k \in 1..Len(ifaces) |-> renderInterface(ifaces[k])], "\n\n")

\* path.dirname(p) for the relative and absolute paths the script is given
dirname(p) ==
  LET slashes == {k \in 1..Len(p) : SubSeq(p, k, k) = "/"}
      last == CHOOSE m \in slashes : \A x \in slashes : x <= m
  IN IF slashes = {} THEN "."
     ELSE IF last = 1 THEN "/"
     ELSE slice(p, 1, last - 1)

(***************************************************************************)
(* The state of one run of the script.                                     *)
(***************************************************************************)
VARIABLES
  script,        \* the entry file that runs: "part_000" or "generate"
  args,          \* process.argv.slice(2)
  fsFiles,       \* the file system: path |-> content of every existing file
  fsDirs,        \* the file system: the existing directories
  fsCalls,       \* the calls made to fs so far, in order: <<function, path>>
  console,       \* what was printed so far, in order
  pc,            \* the statement the run is at
  exitCode,      \* the exit code, once pc = "exited"
  STRAPI_CONTENT_TYPES_PATH,
  OUTPUT_TYPES_PATH,
  inputContent,  \* generateTypes: the text read
  lastIndex,     \* generateTypes: interfaceRegex.lastIndex (1-based position)
  match,         \* generateTypes: the last result of interfaceRegex.exec
  interfaceName, \* generateTypes: the name of the block being parsed
  interfaces,    \* generateTypes: the parsed interfaces
  generatedTypes,
  lines,         \* parseAttributes: the trimmed non-blank lines
  i,             \* parseAttributes: the number of lines consumed
  attrName,      \* parseAttributes: the name of the attribute being read
  attrType,      \* parseAttributes: its type expression so far
  openAngle, openBrace, openBracket,
  attributes,    \* parseAttributes: the attributes emitted so far
  seen,          \* history: every attribute read so far, private ones included
  sample         \* history: the pieces the declaration under test was written from

cliVars == <<script, args, STRAPI_CONTENT_TYPES_PATH, OUTPUT_TYPES_PATH>>
fsVars == <<fsFiles, fsDirs, fsCalls>>
genVars == <<inputContent, lastIndex, match, interfaceName, interfaces, generatedTypes>>
attrVars == <<attrName, attrType, openAngle, openBrace, openBracket>>
parseVars == <<lines, i, attrVars, attributes, seen, sample>>
vars == <<cliVars, fsVars, console, pc, exitCode, genVars, parseVars>>

(***************************************************************************)
(* The inputs of the runs.                                                 *)
(***************************************************************************)

\* the number of attribute declarations in a generated attribute map
MaxDecls == 2

\* the number of interface blocks in a generated file
MaxBlocks == 2

SrcPath == "backend/types/generated/contentTypes.d.ts"
OutPath == "frontend/src/types/strapi.ts"
MissingPath == "backend/missing.d.ts"

\* path.join(__dirname, "../backend/types/generated/contentTypes.d.ts")
DefaultBackendPath == "/app/backend/types/generated/contentTypes.d.ts"

\* path.join(__dirname, "../frontend/src/types/strapi.ts")
DefaultFrontendPath == "/app/frontend/src/types/strapi.ts"

\* the input of the README's example, character for character
ReadmeInput ==
     "export interface ApiArticleArticle {\n"
  \o "  id: number;\n"
  \o "  attributes: {\n"
  \o "    title: Schema.Attribute.String & Schema.Attribute.Required;\n"
  \o "    content: Schema.Attribute.Text;\n"
  \o "    status: Schema.Attribute.Enumeration<[\"draft\", \"published\"]> &\n"
  \o "      Schema.Attribute.Required;\n"
  \o "    author: Schema.Attribute.Relation<\"oneToOne\", \"api::author.author\">;\n"
  \o "    tags: Schema.Attribute.Relation<\"oneToMany\", \"api::tag.tag\">;\n"
  \o "    metadata: Schema.Attribute.JSON & Schema.Attribute.DefaultTo<{}>;\n"
  \o "  };\n"
  \o "}\n"

\* the output of the README's example
ReadmeOutput ==
     "export interface ApiArticleArticle {\n"
  \o "  title: string;\n"
  \o "  content?: string;\n"
  \o "  status: \"draft\" | \"published\";\n"
  \o "  author?: ApiAuthorAuthor;\n"
  \o "  tags?: ApiTagTag[];\n"
  \o "  metadata?: Record<string, any>;\n"
  \o "}"

\* an interface block the way Strapi writes it, around the text of an attribute map
Block(name, decls) ==
     "export interface " \o name \o " extends Struct.CollectionTypeSchema {\n"
  \o "  collectionName: 'items';\n"
  \o "  attributes: {\n"
  \o decls
  \o "  };\n"
  \o "}\n"

\* attribute declarations as they stand in an attribute map, one or more lines each
TitleDecl == "    title: Schema.Attribute.String & Schema.Attribute.Required;\n"

ContentDecl == "    content: Schema.Attribute.Text;\n"

StatusDecl ==
     "    status: Schema.Attribute.Enumeration<[\"draft\", \"published\"]> &\n"
  \o "      Schema.Attribute.Required;\n"

AuthorDecl == "    author: Schema.Attribute.Relation<'oneToOne', 'api::author.author'>;\n"

\* a relation whose type arguments sit on their own lines
TagsDecl ==
     "    tags: Schema.Attribute.Relation<\n"
  \o "      'oneToMany',\n"
  \o "      'api::tag.tag'\n"
  \o "    >;\n"

SecretDecl == "    secret: Schema.Attribute.Password & Schema.Attribute.Private;\n"

TokenDecl ==
     "    token: Schema.Attribute.String &\n"
  \o "      Schema.Attribute.Required &\n"
  \o "      Schema.Attribute.Private;\n"

\* an options object whose inner object closes with "};" at the end of a line
SlugDecl ==
     "    slug: Schema.Attribute.String &\n"
  \o "      Schema.Attribute.SetPluginOptions<{\n"
  \o "        i18n: {\n"
  \o "          localized: true;\n"
  \o "        };\n"
  \o "      }>;\n"

\* the same options object on a private attribute
HiddenDecl ==
     "    hidden: Schema.Attribute.String &\n"
  \o "      Schema.Attribute.Private &\n"
  \o "      Schema.Attribute.SetPluginOptions<{\n"
  \o "        i18n: {\n"
  \o "          localized: true;\n"
  \o "        };\n"
  \o "      }>;\n"

\* a JSON attribute with an object-literal default, over two lines
MetadataDecl ==
     "    metadata: Schema.Attribute.JSON &\n"
  \o "      Schema.Attribute.DefaultTo<{}>;\n"

\* an options object with a key on a line of its own
CodeDecl ==
     "    code: Schema.Attribute.String &\n"
  \o "      Schema.Attribute.SetMinMaxLength<{\n"
  \o "        maxLength: 50;\n"
  \o "      }>;\n"

\* the same under a quoted, hyphenated name
QuotedDecl ==
     "    'short-code': Schema.Attribute.String &\n"
  \o "      Schema.Attribute.SetMinMaxLength<{\n"
  \o "        maxLength: 50;\n"
  \o "      }>;\n"

\* nothing after the colon on the first line
SummaryDecl ==
     "    summary:\n"
  \o "      Schema.Attribute.Text & Schema.Attribute.Required;\n"

\* a line that declares nothing
CommentLine == "    // internal use\n"

\* a declaration that lacks its semicolon
DraftDecl == "    draft: Schema.Attribute.Boolean\n"

\* a string default that holds a ">" of its own
ArrowDecl == "    arrow: Schema.Attribute.String & Schema.Attribute.DefaultTo<'=>'>;\n"

Decls ==
  {TitleDecl, ContentDecl, StatusDecl, AuthorDecl, TagsDecl, SecretDecl, TokenDecl,
   SlugDecl, HiddenDecl, MetadataDecl, CodeDecl, QuotedDecl, SummaryDecl,
   CommentLine, DraftDecl, ArrowDecl}

\* the attribute maps of at most n declarations
RECURSIVE DeclMaps(_)
DeclMaps(n) ==
  IF n = 0 THEN {""}
  ELSE LET shorter == DeclMaps(n - 1)
       IN shorter \cup {m \o d : m \in shorter, d \in Decls}

\* interface blocks a generated file is made of
PlainBlock == Block("ApiArticleArticle", TitleDecl \o ContentDecl)

PrivateBlock == Block("AdminToken", SecretDecl \o TokenDecl)

StrayBlock == Block("ApiNoteNote", CommentLine)

EmptyMapBlock == Block("ApiEmptyEmpty", "")

\* an interface without an attribute map
AuxBlock ==
     "export interface ContentTypeSchemas {\n"
  \o "  'api::article.article': ApiArticleArticle;\n"
  \o "}\n"

\* an interface whose body is empty
EmptyBlock == "export interface Marker {\n}\n"

Blocks == {PlainBlock, PrivateBlock, StrayBlock, EmptyMapBlock, AuxBlock, EmptyBlock}

\* the files of at most n blocks
RECURSIVE BlockFiles(_)
BlockFiles(n) ==
  IF n = 0 THEN {""}
  ELSE LET shorter == BlockFiles(n - 1)
       IN shorter \cup {f \o b : f \in shorter, b \in Blocks}

\* the texts the source file holds in the runs
Inputs ==
  {ReadmeInput}
    \cup {Block("ApiItemItem", m) : m \in DeclMaps(MaxDecls)}
    \cup BlockFiles(MaxBlocks)

\* the command lines of the runs whose source file is the README's example
ArgVectors ==
  {<<>>, <<"-h">>, <<SrcPath>>, <<SrcPath, OutPath>>, <<MissingPath, OutPath>>,
   <<SrcPath, OutPath, "--help">>, <<"", OutPath>>}

Scripts == {"part_000", "generate"}

(***************************************************************************)
(* The declarations parseAttributes is run on, one at a time: a            *)
(* declaration "field: P1 & ... & Pn;" is written from pieces, and each    *)
(* piece records what it is, so that what the script makes of the text can *)
(* be compared with what was written.                                      *)
(***************************************************************************)

\* the number of pieces joined with & in a declaration
MaxPieces == 2

\* text: the piece as written; rule: the rule of transformAttributeType it
\* calls for ("modifier" for none); type: the TypeScript type that rule gives it;
\* oneLine: the type the same piece gives when it is written on one line
Piece(text, rule, type, oneLine) ==
  [text |-> text, rule |-> rule, type |-> type, oneLine |-> oneLine]

Scalar(name, type) == Piece("Schema.Attribute." \o name, name, type, type)

Modifier(text) == Piece(text, "modifier", "", "")

\* Relation<'kind', 'target'> with gap between the comma and the target
Relation(kind, gap, target, type) ==
  Piece("Schema.Attribute.Relation<'" \o kind \o "'," \o gap \o "'" \o target \o "'>",
        "relation", type, type)

ScalarPieces ==
  {Scalar("String", "string"), Scalar("Email", "string"), Scalar("Password", "string"),
   Scalar("Text", "string"), Scalar("Integer", "number"), Scalar("BigInteger", "number"),
   Scalar("Decimal", "number"), Scalar("Boolean", "boolean"),
   Scalar("DateTime", "string")}

JSONPiece == Piece("Schema.Attribute.JSON", "json", "Record<string, any>", "Record<string, any>")

RelationPieces ==
  {Relation("oneToOne", " ", "api::article.article", "ApiArticleArticle"),
   Relation("manyToOne", "  ", "admin::user", "AdminUser"),
   Relation("oneToMany", " ", "api::tag.tag", "ApiTagTag[]"),
   Relation("manyToMany", "", "plugin::users-permissions.user",
            "PluginUsersPermissionsUser[]")}

\* the quoting of the README's example: the pattern asks for single quotes
DoubleQuotedRelation ==
  Piece("Schema.Attribute.Relation<\"oneToOne\", \"api::author.author\">",
        "relation", "any", "any")

\* the type arguments on lines of their own, the way Strapi writes a long relation
SplitRelation ==
  Piece("Schema.Attribute.Relation<\n      'oneToMany',\n      'api::tag.tag'\n    >",
        "relation", "any", "ApiTagTag[]")

Union3 == "\"a\" | \"b\" | \"c\""

EnumerationPieces ==
  {Piece("Schema.Attribute.Enumeration<[\"a\", \"b\", \"c\"]>", "enumeration", Union3, Union3),
   Piece("Schema.Attribute.Enumeration<\n\t[\n        \"a\",\n  \"b\",\n\t\t\"c\"\n      ]\n>",
         "enumeration", Union3, Union3)}

\* an enumeration marker without a list of literals
BareEnumeration ==
  Piece("Schema.Attribute.Enumeration<[]>", "enumeration", "string", "string")

RequiredPiece == Modifier("Schema.Attribute.Required")

PrivatePiece == Modifier("Schema.Attribute.Private")

EmptyArrayDefaults ==
  {Modifier("Schema.Attribute.DefaultTo<'[]'>"), Modifier("Schema.Attribute.DefaultTo<[]>")}

ModifierPieces ==
  {RequiredPiece, PrivatePiece,
   Modifier("Schema.Attribute.SetMinMaxLength<{\n        maxLength: 50;\n      }>")}
    \cup EmptyArrayDefaults

Pieces ==
  ScalarPieces \cup {JSONPiece} \cup RelationPieces
    \cup {DoubleQuotedRelation, SplitRelation}
    \cup EnumerationPieces \cup {BareEnumeration} \cup ModifierPieces

\* the declarations of at most n pieces
RECURSIVE Samples(_)
Samples(n) ==
  IF n = 0 THEN {<<>>}
  ELSE LET shorter == Samples(n - 1)
       IN shorter \cup {Append(w, q) : w \in shorter, q \in Pieces}

\* the text of the declaration written from the pieces w, under a comment line
Declaration(w) ==
  CommentLine \o "    field: " \o join([k \in 1..Len(w) |-> w[k].text], " & ") \o ";\n"

\* what an earlier run left in the destination file
OldOutput == "export interface Old {\n  id?: number;\n}"

\* the file system before the run: the source file (and the default source of
\* generate.ts when withDefault), the destination as world says
FilesBefore(content, withDefault, world) ==
  LET sources == IF withDefault THEN {SrcPath, DefaultBackendPath} ELSE {SrcPath}
      outputs == IF world = "rerun" THEN {OutPath, DefaultFrontendPath} ELSE {}
  IN [p \in sources \cup outputs |-> IF p \in sources THEN content ELSE OldOutput]

DirsBefore(world) ==
  {dirname(SrcPath), dirname(DefaultBackendPath), "."}
    \cup (IF world = "fresh" THEN {}
          ELSE {dirname(OutPath), dirname(DefaultFrontendPath)})

Idle ==
  /\ fsCalls = <<>>
  /\ console = <<>>
  /\ pc = "start"
  /\ exitCode = 0
  /\ STRAPI_CONTENT_TYPES_PATH = ""
  /\ OUTPUT_TYPES_PATH = ""
  /\ inputContent = ""
  /\ lastIndex = 1
  /\ match = NoMatch
  /\ interfaceName = ""
  /\ interfaces = <<>>
  /\ generatedTypes = ""
  /\ lines = <<>>
  /\ i = 0
  /\ attrName = ""
  /\ attrType = ""
  /\ openAngle = 0
  /\ openBrace = 0
  /\ openBracket = 0
  /\ attributes = <<>>
  /\ seen = <<>>
  /\ sample = <<>>

\* a run of either script on the README's example, under every command line
InitCommandLine ==
  /\ script \in Scripts
  /\ args \in ArgVectors
  /\ \E withDefault \in BOOLEAN, world \in {"fresh", "dir", "rerun"} :
       /\ fsFiles = FilesBefore(ReadmeInput, withDefault, world)
       /\ fsDirs = DirsBefore(world)
  /\ Idle

\* a run on each of the inputs, with both paths given
InitContent ==
  /\ script = "part_000"
  /\ args = <<SrcPath, OutPath>>
  /\ \E content \in Inputs :
       fsFiles = FilesBefore(content, FALSE, "dir")
  /\ fsDirs = DirsBefore("dir")
  /\ Idle

Init == InitCommandLine \/ InitContent

(***************************************************************************)
(* The top level of the script: the help flag and the arguments.           *)
(***************************************************************************)

exit(code) == pc' = "exited" /\ exitCode' = code

\* fs.existsSync(p)
existsSync(p) == p \in DOMAIN fsFiles \/ p \in fsDirs

\* process.argv.includes("-h") || process.argv.includes("--help")
helpRequested == \E k \in 1..Len(args) : args[k] \in {"-h", "--help"}

ShowHelp ==
  /\ pc = "start"
  /\ helpRequested
  /\ console' = Append(console, "help")
  /\ exit(0)
  /\ UNCHANGED <<cliVars, fsVars, genVars, parseVars>>

NoHelp ==
  /\ pc = "start"
  /\ ~helpRequested
  /\ pc' = "args"
  /\ UNCHANGED <<cliVars, fsVars, console, exitCode, genVars, parseVars>>

\* part_000: if (args.length < 2) { ...usage...; process.exit(1) }
UsageError ==
  /\ pc = "args"
  /\ script = "part_000"
  /\ Len(args) < 2
  /\ console' = console \o <<"error", "usage">>
  /\ exit(1)
  /\ UNCHANGED <<cliVars, fsVars, genVars, parseVars>>

\* part_000: both paths are taken from the command line
TakePaths ==
  /\ pc = "args"
  /\ script = "part_000"
  /\ Len(args) >= 2
  /\ STRAPI_CONTENT_TYPES_PATH' = args[1]
  /\ OUTPUT_TYPES_PATH' = args[2]
  /\ pc' = "validate"
  /\ UNCHANGED <<script, args, fsVars, console, exitCode, genVars, parseVars>>

\* generate.ts: args[0] || default, args[1] || default
argOrDefault(k, default) == IF Len(args) >= k /\ args[k] # "" THEN args[k] ELSE default

DefaultPaths ==
  /\ pc = "args"
  /\ script = "generate"
  /\ STRAPI_CONTENT_TYPES_PATH' = argOrDefault(1, DefaultBackendPath)
  /\ OUTPUT_TYPES_PATH' = argOrDefault(2, DefaultFrontendPath)
  /\ pc' = "exists"
  /\ UNCHANGED <<script, args, fsVars, console, exitCode, genVars, parseVars>>

(***************************************************************************)
(* generateTypes, up to the read of the source file.                       *)
(***************************************************************************)

\* part_000: if (!STRAPI_CONTENT_TYPES_PATH || !OUTPUT_TYPES_PATH) process.exit(1)
pathsGiven == STRAPI_CONTENT_TYPES_PATH # "" /\ OUTPUT_TYPES_PATH # ""

PathMissing ==
  /\ pc = "validate"
  /\ ~pathsGiven
  /\ console' = Append(console, "error")
  /\ exit(1)
  /\ UNCHANGED <<cliVars, fsVars, genVars, parseVars>>

PathsGiven ==
  /\ pc = "validate"
  /\ pathsGiven
  /\ pc' = "exists"
  /\ UNCHANGED <<cliVars, fsVars, console, exitCode, genVars, parseVars>>

\* the failure with the output directory made before the source is looked for
InputNotFoundAfterMkdir ==
  /\ pc = "exists"
  /\ ~existsSync(STRAPI_CONTENT_TYPES_PATH)
  /\ fsCalls' = fsCalls \o <<<<"mkdirSync", dirname(OUTPUT_TYPES_PATH)>>,
                             <<"existsSync", STRAPI_CONTENT_TYPES_PATH>>>>
  /\ fsDirs' = fsDirs \cup {dirname(OUTPUT_TYPES_PATH)}
  /\ console' = Append(console, "error")
  /\ exit(1)
  /\ UNCHANGED <<cliVars, fsFiles, genVars, parseVars>>

\* if (!fs.existsSync(STRAPI_CONTENT_TYPES_PATH)) throw ..., caught at the end
InputNotFound ==
  /\ pc = "exists"
  /\ ~existsSync(STRAPI_CONTENT_TYPES_PATH)
  /\ fsCalls' = Append(fsCalls, <<"existsSync", STRAPI_CONTENT_TYPES_PATH>>)
  /\ console' = Append(console, "error")
  /\ exit(1)
  /\ UNCHANGED <<cliVars, fsFiles, fsDirs, genVars, parseVars>>

InputFound ==
  /\ pc = "exists"
  /\ existsSync(STRAPI_CONTENT_TYPES_PATH)
  /\ fsCalls' = Append(fsCalls, <<"existsSync", STRAPI_CONTENT_TYPES_PATH>>)
  /\ pc' = "mkdir"
  /\ UNCHANGED <<cliVars, fsFiles, fsDirs, console, exitCode, genVars, parseVars>>

\* if (!fs.existsSync(outputDir)) fs.mkdirSync(outputDir, { recursive: true })
MakeOutputDir ==
  /\ pc = "mkdir"
  /\ LET outputDir == dirname(OUTPUT_TYPES_PATH)
     IN /\ ~existsSync(outputDir)
        /\ fsCalls' = fsCalls \o <<<<"existsSync", outputDir>>, <<"mkdirSync", outputDir>>>>
        /\ fsDirs' = fsDirs \cup {outputDir}
  /\ pc' = "read"
  /\ UNCHANGED <<cliVars, fsFiles, console, exitCode, genVars, parseVars>>

OutputDirExists ==
  /\ pc = "mkdir"
  /\ LET outputDir == dirname(OUTPUT_TYPES_PATH)
     IN /\ existsSync(outputDir)
        /\ fsCalls' = Append(fsCalls, <<"existsSync", outputDir>>)
  /\ pc' = "read"
  /\ UNCHANGED <<cliVars, fsFiles, fsDirs, console, exitCode, genVars, parseVars>>

\* const inputContent = fs.readFileSync(STRAPI_CONTENT_TYPES_PATH, "utf8")
ReadInput ==
  /\ pc = "read"
  /\ console' = console \o <<"reading", "writing">>
  /\ fsCalls' = Append(fsCalls, <<"readFileSync", STRAPI_CONTENT_TYPES_PATH>>)
  /\ inputContent' = fsFiles[STRAPI_CONTENT_TYPES_PATH]
  /\ lastIndex' = 1
  /\ interfaces' = <<>>
  /\ pc' = "exec"
  /\ UNCHANGED <<cliVars, fsFiles, fsDirs, exitCode, match, interfaceName,
                 generatedTypes, parseVars>>

(***************************************************************************)
(* generateTypes: the extraction loop.                                     *)
(***************************************************************************)

\* if (match[1] && match[2]) and if (!attributesMatch || !attributesMatch[1])
hasAttributes(m) ==
  /\ m.name # ""
  /\ m.content # ""
  /\ LET am == attributesMatch(m.content) IN am.found /\ am.content # ""

\* match = interfaceRegex.exec(inputContent)
Exec ==
  /\ pc = "exec"
  /\ match' = interfaceExec(inputContent, lastIndex)
  /\ lastIndex' = IF match'.found THEN match'.lastIndex ELSE 1
  /\ pc' = "matched"
  /\ UNCHANGED <<cliVars, fsVars, console, exitCode, inputContent, interfaceName,
                 interfaces, generatedTypes, parseVars>>

\* match === null: the loop ends
ExecDone ==
  /\ pc = "matched"
  /\ ~match.found
  /\ pc' = "render"
  /\ UNCHANGED <<cliVars, fsVars, console, exitCode, genVars, parseVars>>

\* a block without an attributes section: continue
ExecSkip ==
  /\ pc = "matched"
  /\ match.found
  /\ ~hasAttributes(match)
  /\ pc' = "exec"
  /\ UNCHANGED <<cliVars, fsVars, console, exitCode, genVars, parseVars>>

\* parseAttributes(attributesContent) is entered
ExecParse ==
  /\ pc = "matched"
  /\ match.found
  /\ LET am == attributesMatch(match.content)
     IN /\ match.name # ""
        /\ match.content # ""
        /\ am.found
        /\ am.content # ""
        /\ lines' = splitLines(am.content)
  /\ interfaceName' = match.name
  /\ i' = 0
  /\ attributes' = <<>>
  /\ pc' = "scan"
  /\ UNCHANGED <<cliVars, fsVars, console, exitCode, inputContent, lastIndex, match,
                 interfaces, generatedTypes, attrVars, seen, sample>>

(***************************************************************************)
(* parseAttributes: the scan of the lines and the continuation loop.       *)
(***************************************************************************)

\* if (attrMatch && attrMatch[1] && attrMatch[2])
startsAttribute(line) ==
  LET m == attrMatch(line) IN m.found /\ m.name # "" /\ m.type # ""

\* a line that starts an attribute: its name, the start of its type, the counts
StartAttribute ==
  /\ pc = "scan"
  /\ i < Len(lines)
  /\ startsAttribute(lines[i + 1])
  /\ LET m == attrMatch(lines[i + 1])
     IN /\ attrName' = m.name
        /\ attrType' = m.type
        /\ openAngle' = netOpen(m.type, "<", ">")
        /\ openBrace' = netOpen(m.type, "{", "}")
        /\ openBracket' = netOpen(m.type, "[", "]")
  /\ i' = i + 1
  /\ pc' = "continue"
  /\ UNCHANGED <<cliVars, fsVars, console, exitCode, genVars, lines, attributes, seen, sample>>

\* a line that starts no attribute is skipped
SkipLine ==
  /\ pc = "scan"
  /\ i < Len(lines)
  /\ ~startsAttribute(lines[i + 1])
  /\ i' = i + 1
  /\ UNCHANGED <<cliVars, fsVars, console, pc, exitCode, genVars, lines, attrVars,
                 attributes, seen, sample>>

\* a turn of the loop that leaves the cursor where it is
AppendLineInPlace ==
  /\ pc = "continue"
  /\ mustContinue(i, lines, attrType, openAngle, openBrace, openBracket) = TRUE
  /\ LET nextLine == lines[i + 1]
     IN /\ attrType' = attrType \o " " \o nextLine
        /\ openAngle' = openAngle + netOpen(nextLine, "<", ">")
        /\ openBrace' = openBrace + netOpen(nextLine, "{", "}")
        /\ openBracket' = openBracket + netOpen(nextLine, "[", "]")
  /\ UNCHANGED <<cliVars, fsVars, console, pc, exitCode, genVars, lines, i, attrName,
                 attributes, seen, sample>>

\* one turn of the continuation loop
AppendLine ==
  /\ pc = "continue"
  /\ mustContinue(i, lines, attrType, openAngle, openBrace, openBracket) = TRUE
  /\ LET nextLine == lines[i + 1]
     IN /\ attrType' = attrType \o " " \o nextLine
        /\ openAngle' = openAngle + netOpen(nextLine, "<", ">")
        /\ openBrace' = openBrace + netOpen(nextLine, "{", "}")
        /\ openBracket' = openBracket + netOpen(nextLine, "[", "]")
  /\ i' = i + 1
  /\ UNCHANGED <<cliVars, fsVars, console, pc, exitCode, genVars, lines, attrName,
                 attributes, seen, sample>>

\* the record kept of an attribute that was read: the block it stands in (by the
\* position the block ends at), its name, its cleaned type, the lines consumed
Seen(type) == [block |-> lastIndex, name |-> attrName, type |-> type, upTo |-> i]

\* the continuation loop has ended on a private attribute: continue
SkipPrivate ==
  /\ pc = "continue"
  /\ ~mustContinue(i, lines, attrType, openAngle, openBrace, openBracket)
  /\ LET cleaned == cleanType(attrType)
     IN /\ isPrivate(cleaned)
        /\ attrType' = cleaned
        /\ seen' = Append(seen, Seen(cleaned))
  /\ pc' = "scan"
  /\ UNCHANGED <<cliVars, fsVars, console, exitCode, genVars, lines, i, attrName,
                 openAngle, openBrace, openBracket, attributes, sample>>

\* the continuation loop has ended on an attribute that is kept
PushAttribute ==
  /\ pc = "continue"
  /\ ~mustContinue(i, lines, attrType, openAngle, openBrace, openBracket)
  /\ LET cleaned == cleanType(attrType)
     IN /\ ~isPrivate(cleaned)
        /\ attrType' = cleaned
        /\ attributes' = Append(attributes,
                                [name |-> attrName,
                                 type |-> transformAttributeType(cleaned),
                                 required |-> isRequired(cleaned)])
        /\ seen' = Append(seen, Seen(cleaned))
  /\ pc' = "scan"
  /\ UNCHANGED <<cliVars, fsVars, console, exitCode, genVars, lines, i, attrName,
                 openAngle, openBrace, openBracket, sample>>

\* the push without the test of attributes.length
KeepEveryInterface ==
  /\ pc = "scan"
  /\ i >= Len(lines)
  /\ interfaces' = Append(interfaces, [name |-> interfaceName, attributes |-> attributes])
  /\ pc' = "exec"
  /\ UNCHANGED <<cliVars, fsVars, console, exitCode, inputContent, lastIndex, match,
                 interfaceName, generatedTypes, parseVars>>

\* return attributes; if (attributes.length > 0) interfaces.push(...)
KeepInterface ==
  /\ pc = "scan"
  /\ i >= Len(lines)
  /\ Len(attributes) > 0
  /\ interfaces' = Append(interfaces, [name |-> interfaceName, attributes |-> attributes])
  /\ pc' = "exec"
  /\ UNCHANGED <<cliVars, fsVars, console, exitCode, inputContent, lastIndex, match,
                 interfaceName, generatedTypes, parseVars>>

DropInterface ==
  /\ pc = "scan"
  /\ i >= Len(lines)
  /\ Len(attributes) = 0
  /\ pc' = "exec"
  /\ UNCHANGED <<cliVars, fsVars, console, exitCode, genVars, parseVars>>

(***************************************************************************)
(* generateTypes: the rendering and the write.                             *)
(***************************************************************************)

Render ==
  /\ pc = "render"
  /\ generatedTypes' = renderTypes(interfaces)
  /\ pc' = "write"
  /\ UNCHANGED <<cliVars, fsVars, console, exitCode, inputContent, lastIndex, match,
                 interfaceName, interfaces, parseVars>>

\* fs.writeFileSync(OUTPUT_TYPES_PATH, generatedTypes), and the run ends
WriteOutput ==
  /\ pc = "write"
  /\ fsCalls' = Append(fsCalls, <<"writeFileSync", OUTPUT_TYPES_PATH>>)
  /\ fsFiles' = [p \in DOMAIN fsFiles \cup {OUTPUT_TYPES_PATH} |->
                   IF p = OUTPUT_TYPES_PATH THEN generatedTypes ELSE fsFiles[p]]
  /\ console' = Append(console, "generated")
  /\ exit(0)
  /\ UNCHANGED <<cliVars, fsDirs, genVars, parseVars>>

Next ==
  \/ ShowHelp
  \/ NoHelp
  \/ UsageError
  \/ TakePaths
  \/ DefaultPaths
  \/ PathMissing
  \/ PathsGiven
  \/ InputNotFound
  \/ InputFound
  \/ MakeOutputDir
  \/ OutputDirExists
  \/ ReadInput
  \/ Exec
  \/ ExecDone
  \/ ExecSkip
  \/ ExecParse
  \/ StartAttribute
  \/ SkipLine
  \/ AppendLine
  \/ SkipPrivate
  \/ PushAttribute
  \/ KeepInterface
  \/ DropInterface
  \/ Render
  \/ WriteOutput

Spec == Init /\ [][Next]_vars

(***************************************************************************)
(* parseAttributes on its own, on one declaration written from pieces.     *)
(***************************************************************************)

InitParse ==
  /\ script = "part_000"
  /\ args = <<SrcPath, OutPath>>
  /\ fsFiles = FilesBefore("", FALSE, "dir")
  /\ fsDirs = DirsBefore("dir")
  /\ fsCalls = <<>>
  /\ console = <<>>
  /\ exitCode = 0
  /\ STRAPI_CONTENT_TYPES_PATH = SrcPath
  /\ OUTPUT_TYPES_PATH = OutPath
  /\ inputContent = ""
  /\ lastIndex = 1
  /\ match = NoMatch
  /\ interfaceName = "ApiItemItem"
  /\ interfaces = <<>>
  /\ generatedTypes = ""
  /\ sample \in Samples(MaxPieces) \ {<<>>}
  /\ \E text \in {Declaration(sample)} : lines = splitLines(text)
  /\ i = 0
  /\ attrName = ""
  /\ attrType = ""
  /\ openAngle = 0
  /\ openBrace = 0
  /\ openBracket = 0
  /\ attributes = <<>>
  /\ seen = <<>>
  /\ pc = "scan"

NextParse ==
  \/ StartAttribute
  \/ SkipLine
  \/ AppendLine
  \/ SkipPrivate
  \/ PushAttribute

SpecParse == InitParse /\ [][NextParse]_vars

(***************************************************************************)
(* Properties of the runs.                                                 *)
(***************************************************************************)

Range(f) == {f[k] : k \in DOMAIN f}

\* the run has ended after writing the destination file
Written == pc = "exited" /\ exitCode = 0 /\ "generated" \in Range(console)

\* the text of each interface block of a file, from its name on
blockTexts(content) == Tail(split(content, "export interface "))

\* the text written between "attributes: {" and the "};" that closes it, in a file
\* that holds one interface block
writtenMap(content) ==
  LET open == "  attributes: {\n"
      close == "  };\n}\n"
      from == indexOfFrom(content, open, 1) + Len(open)
  IN slice(content, from, Len(content) - Len(close))

holdsOneMap(content) ==
  /\ Len(blockTexts(content)) = 1
  /\ includes(content, "  attributes: {\n")
  /\ endsWith(content, "  };\n}\n")

\* C1: a run on the input of the README's example leaves in the destination file
\* exactly the output the README shows for it: one block ApiArticleArticle with
\* the six lines title, content?, status, author?: ApiAuthorAuthor,
\* tags?: ApiTagTag[] and metadata?, and nothing else.
C1_ReadmeExample ==
  (Written /\ inputContent = ReadmeInput)
    => fsFiles[OUTPUT_TYPES_PATH] = ReadmeOutput

\* C2: the text handed to parseAttributes runs up to the closing brace of the
\* attributes sub-block itself, whatever braces close lines inside the type
\* expressions: the lines parsed are the lines of the whole written map.
C2_MapRunsToItsOwnBrace ==
  (pc = "scan" /\ i = 0 /\ holdsOneMap(inputContent))
    => lines = splitLines(writtenMap(inputContent))

\* C10: a run started with fewer than two path arguments and without a help flag
\* makes no call to the file system, and it ends with the usage printed and a
\* non-zero exit code.
C10_UsageAndNothingElse ==
  (Len(args) < 2 /\ ~helpRequested)
    => /\ fsCalls = <<>>
       /\ pc = "exited" => (exitCode # 0 /\ "usage" \in Range(console))

blockName(b) == slice(b, 1, wordRun(b, 1))

\* the attributes read so far in the block being parsed
seenHere == SelectSeq(seen, LAMBDA r : r.block = lastIndex)

\* what parseAttributes emits for the attributes of read that are not private
emitted(read) ==
  LET public == SelectSeq(read, LAMBDA r : ~includes(r.type, "Schema.Attribute.Private"))
  IN [k \in 1..Len(public) |->
        [name |-> public[k].name,
         type |-> transformAttributeType(public[k].type),
         required |-> includes(public[k].type, "Schema.Attribute.Required")]]

\* the attributes read in the run that are not private
survivors == SelectSeq(seen, LAMBDA r : ~includes(r.type, "Schema.Attribute.Private"))

\* the lines of the generated text that render an attribute
renderedProps(text) ==
  SelectSeq(split(text, "\n"), LAMBDA line : startsWithAt(line, "  ", 1))

\* the line renders an attribute of this name
rendersName(line, name) ==
  startsWithAt(line, "  " \o name \o ": ", 1) \/ startsWithAt(line, "  " \o name \o "?: ", 1)

\* C3: an attribute whose reconstructed type expression holds the private marker
\* is in neither the parsed attribute list nor the rendered text, whatever else
\* it carries, and the other attributes keep their name, type, required flag and
\* order: the list is what the non-private attributes read give, one for one,
\* and the rendered lines are theirs, one for one.
C3_PrivateNeverEmitted ==
  /\ pc \in {"scan", "continue"} => attributes = emitted(seenHere)
  /\ pc \in {"write", "exited"}
       => LET props == renderedProps(generatedTypes)
          IN /\ Len(props) = Len(survivors)
             /\ \A k \in 1..Len(props) : rendersName(props[k], survivors[k].name)

\* a private attribute that is also required has been passed over, and an
\* attribute read after it has been emitted
C3_Witness ==
  /\ pc = "scan"
  /\ \E k \in 1..Len(seenHere) :
       /\ includes(seenHere[k].type, "Schema.Attribute.Private")
       /\ includes(seenHere[k].type, "Schema.Attribute.Required")
       /\ k < Len(seenHere)
  /\ attributes # <<>>

\* C4: in the file written, the line of every surviving attribute is
\* "  name: type;" if its reconstructed type expression holds the required
\* marker anywhere, and "  name?: type;" if it does not.
C4_OptionalUnlessRequired ==
  Written
    => LET props == renderedProps(fsFiles[OUTPUT_TYPES_PATH])
       IN /\ Len(props) = Len(survivors)
          /\ \A k \in 1..Len(props) :
               LET r == survivors[k]
                   mark == IF includes(r.type, "Schema.Attribute.Required") THEN "" ELSE "?"
               IN props[k] = "  " \o r.name \o mark \o ": "
                               \o transformAttributeType(r.type) \o ";"

\* a file has been written that holds a required and an optional attribute, the
\* required marker standing after another marker
C4_Witness ==
  /\ Written
  /\ \E k \in 1..Len(survivors) :
       /\ includes(survivors[k].type, "& Schema.Attribute.Required")
       /\ includes(fsFiles[OUTPUT_TYPES_PATH], "  " \o survivors[k].name \o ": ")
  /\ \E k \in 1..Len(survivors) :
       /\ ~includes(survivors[k].type, "Schema.Attribute.Required")
       /\ includes(fsFiles[OUTPUT_TYPES_PATH], "  " \o survivors[k].name \o "?: ")

\* the name of the interface block whose match ends before position end
nameEndingAt(content, end) ==
  LET before == blockTexts(slice(content, 1, end - 1))
  IN blockName(before[Len(before)])

\* the k-th smallest member of a set of numbers
nth(S, k) == CHOOSE x \in S : Cardinality({y \in S : y < x}) = k - 1

Parsed == pc = "scan" /\ i >= Len(lines)

hasRule(w, rule) == \E k \in 1..Len(w) : w[k].rule = rule

\* the leftmost piece of w that is in the set P
leftmost(w, P) == w[Least({k \in 1..Len(w) : w[k] \in P})]

\* the scalar markers in the order of the documented table
ScalarTable ==
  <<"String", "Email", "Password", "Text", "Integer", "BigInteger", "Decimal",
    "Boolean", "DateTime">>

\* the type the rules give the declaration written from w, in their order of
\* priority; field is "type" for the text as written, "oneLine" for the same
\* pieces written on one line each
expectedType(w, field) ==
  LET lists == {q \in Range(w) : q.rule = "enumeration" /\ q[field] # "string"}
      pairs == {q \in Range(w) : q.rule = "relation" /\ q[field] # "any"}
      scalars == {k \in 1..Len(ScalarTable) : hasRule(w, ScalarTable[k])}
  IN IF hasRule(w, "enumeration")
     THEN IF lists = {} THEN "string" ELSE leftmost(w, lists)[field]
     ELSE IF hasRule(w, "relation")
     THEN IF pairs = {} THEN "any" ELSE leftmost(w, pairs)[field]
     ELSE IF hasRule(w, "json")
     THEN IF Range(w) \cap EmptyArrayDefaults # {} THEN "any[]" ELSE "Record<string, any>"
     ELSE IF scalars = {} THEN "any"
     ELSE (CHOOSE q \in Range(w) : q.rule = ScalarTable[Least(scalars)])[field]

C6_EnumerationUnion ==
  (attributes # <<>> /\ hasRule(sample, "enumeration"))
    => attributes[1].type
         = IF Range(sample) \cap EnumerationPieces = {} THEN "string"
           ELSE "\"a\" | \"b\" | \"c\""

\* an enumeration whose list is laid out over several lines has been given its
\* union type
C6_Witness ==
  /\ Parsed
  /\ \E k \in 1..Len(sample) :
       sample[k] \in EnumerationPieces /\ includes(sample[k].text, "\n")
  /\ Range(sample) \cap EnumerationPieces \subseteq {q \in Pieces : includes(q.text, "\n")}
  /\ attributes # <<>>
  /\ attributes[1].type = "\"a\" | \"b\" | \"c\""

\* C7: the type of an attribute is what the first applicable rule gives, in the
\* order enumeration, relation, JSON, scalar table, any: every scalar marker its
\* documented primitive whatever is joined to it, JSON any[] with an empty-array
\* default and Record<string, any> without, any when no marker is recognised.
C7_FirstApplicableRule ==
  attributes # <<>> => attributes[1].type = expectedType(sample, "type")

\* a JSON marker joined to a scalar marker that stands before it has been given
\* the type of the JSON rule
C7_Witness ==
  /\ Parsed
  /\ Len(sample) = 2
  /\ sample[1] \in ScalarPieces
  /\ sample[2] = JSONPiece
  /\ attributes # <<>>
  /\ attributes[1].type = "Record<string, any>"

\* a piece of w is written over several lines
multiLine(w) == \E k \in 1..Len(w) : includes(w[k].text, "\n")

\* C8: a declaration whose type expression is split over several lines gives
\* exactly one attribute, with the name, the type and the required flag the same
\* expression gives when it is written on one line.
C8_SplitAsOnOneLine ==
  (Parsed /\ multiLine(sample) /\ PrivatePiece \notin Range(sample))
    => attributes = <<[name |-> "field",
                       type |-> expectedType(sample, "oneLine"),
                       required |-> RequiredPiece \in Range(sample)]>>

(***************************************************************************)
(* Properties of the file operations of a run.                             *)
(***************************************************************************)

\* the calls of fs function f made so far
callsOf(f) == SelectSeq(fsCalls, LAMBDA c : c[1] = f)

\* the paths have been taken and the source path names nothing that exists
sourceMissing ==
  STRAPI_CONTENT_TYPES_PATH # "" /\ ~existsSync(STRAPI_CONTENT_TYPES_PATH)

\* the destination is as it was before the run: absent, or the file of an
\* earlier run
destinationUntouched ==
  OUTPUT_TYPES_PATH \in DOMAIN fsFiles => fsFiles[OUTPUT_TYPES_PATH] = OldOutput

\* C11: when the source path does not exist the only file operation of the run
\* is the existence check of the source: no directory is created, nothing is
\* read, the destination is neither created nor overwritten, and the run ends
\* with the failure reported and a non-zero exit code; in every run the
\* destination is written at most once, after the extraction loop has ended,
\* with the text rendered from the interfaces parsed.
C11_NotFoundLeavesDestination ==
  /\ sourceMissing
       => /\ \A k \in 1..Len(fsCalls) :
               fsCalls[k] = <<"existsSync", STRAPI_CONTENT_TYPES_PATH>>
          /\ Len(fsCalls) <= 1
          /\ destinationUntouched
          /\ pc \in {"validate", "exists", "exited"}
          /\ pc = "exited" => (exitCode # 0 /\ "error" \in Range(console))
  /\ Len(callsOf("writeFileSync")) <= 1
  /\ callsOf("writeFileSync") # <<>>
       => /\ pc = "exited"
          /\ ~match.found
          /\ callsOf("readFileSync") # <<>>
          /\ fsFiles[OUTPUT_TYPES_PATH] = renderTypes(interfaces)
  /\ callsOf("writeFileSync") = <<>> => destinationUntouched

\* a run on a source path that does not exist has ended, and the file an earlier
\* run left at the destination is still there
C11_Witness ==
  /\ pc = "exited"
  /\ exitCode = 1
  /\ STRAPI_CONTENT_TYPES_PATH = MissingPath
  /\ fsCalls = <<<<"existsSync", MissingPath>>>>
  /\ OUTPUT_TYPES_PATH \in DOMAIN fsFiles
  /\ fsFiles[OUTPUT_TYPES_PATH] = OldOutput

(***************************************************************************)
(* Properties of the continuation loop and of the scan of parseAttributes. *)
(***************************************************************************)

\* a step of the continuation loop that appends a line
appends == pc = "continue" /\ pc' = "continue"

\* a step that leaves the continuation loop with lines still to read
stopsEarly == pc = "continue" /\ pc' = "scan" /\ i < Len(lines)

\* every line appended is the next line, after one space
appendsNextLine == appends => (i' = i + 1 /\ attrType' = attrType \o " " \o lines[i + 1])

parsing == pc \in {"scan", "continue"}

\* the lines parseAttributes has yet to read, twice, and one more while it is
\* inside the continuation loop: what is left of the work
workLeft == 2 * (Len(lines) - i) + (IF pc = "continue" THEN 1 ELSE 0)

\* the statement parseAttributes is at can be carried out: in the outer scan a
\* line is left to test against the pattern, or none is and the function
\* returns; in the continuation loop the next line is there to append, or the
\* loop has ended and the attribute is cleaned
canStep ==
  \/ /\ pc = "scan"
     /\ i < Len(lines)
     /\ startsAttribute(lines[i + 1]) \in BOOLEAN
  \/ /\ pc = "scan"
     /\ i = Len(lines)
  \/ /\ pc = "continue"
     /\ mustContinue(i, lines, attrType, openAngle, openBrace, openBracket)
     /\ i + 1 \in DOMAIN lines
  \/ /\ pc = "continue"
     /\ ~mustContinue(i, lines, attrType, openAngle, openBrace, openBracket)
     /\ isPrivate(cleanType(attrType)) \in BOOLEAN

\* C13: parseAttributes terminates on every attribute sub-block without an
\* error: the cursor never passes the end of the lines and the statement the
\* parse is at can always be carried out; every turn of the outer scan and of
\* the continuation loop moves the cursor forward by one line (the step that
\* leaves the continuation loop keeps it), so that the work left shrinks with
\* every step; and the parse is left only with every line read, also when the
\* input ends inside an open bracket or before a ";".
C13_ParseTerminates ==
  /\ [](parsing => (i <= Len(lines) /\ canStep))
  /\ [][/\ (parsing /\ parsing')
            => /\ \/ i' = i + 1
                  \/ pc = "continue" /\ pc' = "scan" /\ i' = i
               /\ workLeft' < workLeft
        /\ (parsing /\ ~parsing')
            => /\ pc = "scan"
               /\ pc' = "exec"
               /\ i = Len(lines)]_vars

\* the input has ended inside an options object that is still open, and the
\* continuation loop has ended all the same
C13_Witness ==
  /\ pc = "scan"
  /\ i = Len(lines)
  /\ seenHere # <<>>
  /\ seenHere[Len(seenHere)].upTo = i
  /\ openBrace > 0

(***************************************************************************)
(* Properties of the names parseAttributes emits.                          *)
(***************************************************************************)

\* the file declares an attribute of this name at the top level of an attribute
\* map, which is at an indentation of four spaces
declaredAtTopLevel(name) == includes(inputContent, "\n    " \o name \o ":")

\* C14: every attribute emitted carries the name of a top-level declaration of
\* the attribute map, and every line is consumed by at most one attribute: the
\* lines an attribute takes end before those of the next one start. A key nested
\* in an options object is never emitted as an attribute of its own, also when
\* the first line of the declaration around it starts no attribute.
C14_OnlyTopLevelNames ==
  /\ \A k \in 1..Len(attributes) : declaredAtTopLevel(attributes[k].name)
  /\ \A k \in 1..(Len(seenHere) - 1) : seenHere[k].upTo < seenHere[k + 1].upTo

====
